---- MODULE Spec2Model ----
(***************************************************************************)
(* The jwplayer() Api facade of src/js/api/api.js: the long-lived handle   *)
(* (class Api), the disposable controller it creates and replaces, the     *)
(* list of active players, the name-based call forwarder and the event     *)
(* re-broadcast from the controller to the handle.                         *)
(*                                                                         *)
(* JavaScript runs handlers to completion on one thread, but a handler     *)
(* calls subscribers, and a subscriber may call back into the handle.      *)
(* The call stack is therefore part of the state: `stack` holds one frame  *)
(* per running setup(), remove() or event dispatch, and every action is a  *)
(* step of the top frame, or a call made by the integrator or the runtime  *)
(* when the stack is empty.                                                *)
(***************************************************************************)
EXTENDS Integers, Sequences, FiniteSets, TLC

(* ---------------------------- bounds ----------------------------------- *)
\* calls the integrator makes: constructions, on(), setup() and remove(),
\* those made from inside a subscriber or an options.events binding included
MaxCalls == 5

(* ---------------------------- vocabulary ------------------------------- *)
Null == "null"
\* no argument passed: undefined
NoArgs == <<>>
ElementIds == {"player"}
\* subscribers; what one does when invoked is chosen at each invocation
Callbacks == {"f"}
\* names a subscription can be registered under; "all" is the wildcard
SubNames == {"ready", "remove", "all"}
\* events a controller emits
CtlEvents == {"ready", "time"}
\* event objects a controller hands to its listeners
CtlPayloads == {[pos |-> "1", type |-> "stale"]}
\* operations the Controller class exposes to callInternal
ControllerOps == {"setVolume", "get"}
\* names asked of callInternal
CallNames == {"setVolume", "nonexistentOp"}
CallArgs == {"50"}
\* public methods of the handle that an options.events key can name
ApiMethods == {"onReady", "setVolume", "remove", "setup"}
\* keys of options.events that call setup() or remove() on the handle
LifecycleKeys == {"remove", "setup"}
\* the options.events maps the integrator passes, as ordered key/value pairs
\* (the value "{}" under the key "setup" is an options object without events)
EventMaps == {<<>>, <<[k |-> "onReady", v |-> "f"]>>, <<[k |-> "setVolume", v |-> "50"]>>,
              <<[k |-> "remove", v |-> "x"]>>, <<[k |-> "nosuch", v |-> "x"]>>,
              <<[k |-> "setup", v |-> "{}"]>>}
Options == {[id |-> "other", events |-> e] : e \in EventMaps}
\* the options object a value of options.events stands for
Nested(v) == [id |-> "inner", events |-> <<>>]
\* the hooks of plugin instances that addPlugin subscribes
PluginHooks == {"p.addToPlayer", "p.resizeHandler", "q.addToPlayer"}
NoHooks == [h \in PluginHooks |-> 0]

VARIABLES
    instancesCreated,   \* api.js:16  let instancesCreated = 0
    instances,          \* api.js:1   the list of active players (api/players)
    api,                \* the Api objects, in construction order
    ctl,                \* the Controller objects, in allocation order
    hasDestroy,         \* whether the Controller class defines playerDestroy
    ops,                \* the operations the Controller class defines
    hooks,              \* how often each hook of a plugin instance was invoked
    now,                \* the clock the QoE timer reads
    debug,              \* api.js:297  window.jwplayer.debug
    stack,              \* the call stack, bottom first
    used,               \* calls counted against MaxCalls so far
    removed,            \* the handles remove() has been called on
    last                \* the last life-cycle or forwarded call and what it did

vars == <<instancesCreated, instances, api, ctl, hasDestroy, ops, hooks, now, debug,
          stack, used, removed, last>>

Apis == 1..Len(api)
Ctls == 1..Len(ctl)

NoEvents == [n \in SubNames |-> <<>>]
NoPayload == [type |-> ""]
NoOpts == [id |-> "", events |-> <<>>]
NoLast == [op |-> "none", a |-> 0, name |-> "", arg |-> Null, target |-> 0,
           this |-> 0, result |-> Null, fired |-> <<>>, payload |-> NoArgs,
           given |-> NoArgs, value |-> NoArgs, calls |-> <<>>]
NoFrame == [op |-> "none", a |-> 0, pc |-> "", name |-> "", payload |-> NoPayload,
            todo |-> <<>>, opts |-> NoOpts, src |-> 0, made |-> 0, d0 |-> 0,
            reent |-> FALSE, safe |-> TRUE, given |-> NoArgs, done |-> <<>>]

(* ------------------- api/timer ----------------------------------------- *)
\* The QoE timer keeps the time of the last tick of each label.
tick(q, label) == [l \in DOMAIN q \cup {label} |-> IF l = label THEN now ELSE q[l]]
clear_keeps(q, label) == q
clear(q, label) == [l \in DOMAIN q \ {label} |-> q[l]]
\* the time from the tick of `left` to that of `right`, -1 when either is missing
between(q, left, right) ==
    IF {left, right} \subseteq DOMAIN q THEN q[right] - q[left] ELSE -1

(* ------------------- api.js:23-36  setupController --------------------- *)
\* new Controller(element) with the two listeners the api puts on it:
\* one on "ready" (line 27), one on "all" (line 31), in that order.
setupController(a) ==
    [api |-> a, listeners |-> <<"ready", "all">>, destroyed |-> 0, setups |-> 0]

(* ------------------- api.js:57-64  removePlayer ------------------------ *)
\* for (let i = instances.length; i--;) if (instances[i].uniqueId === uid)
\*     { instances.splice(i, 1); break; }
RECURSIVE removeScan(_, _, _)
removeScan(reg, uid, i) ==
    IF i = 0 THEN reg
    ELSE IF api[reg[i]].uniqueId = uid
         THEN SubSeq(reg, 1, i - 1) \o SubSeq(reg, i + 1, Len(reg))
         ELSE removeScan(reg, uid, i - 1)

\* a scan that starts one entry short of the end
removePlayer_short(reg, a) ==
    IF reg = <<>> THEN reg ELSE removeScan(reg, api[a].uniqueId, Len(reg) - 1)

\* a removal that drops the newest entry, whoever it is
removePlayer_pop(reg, a) ==
    IF reg = <<>> THEN reg ELSE SubSeq(reg, 1, Len(reg) - 1)

\* a removal that takes the first matching entry from the front
removePlayer_front(reg, a) ==
    IF \E i \in 1..Len(reg) : api[reg[i]].uniqueId = api[a].uniqueId
    THEN LET j == CHOOSE i \in 1..Len(reg) :
                      /\ api[reg[i]].uniqueId = api[a].uniqueId
                      /\ \A k \in 1..(i - 1) : api[reg[k]].uniqueId # api[a].uniqueId
         IN  SubSeq(reg, 1, j - 1) \o SubSeq(reg, j + 1, Len(reg))
    ELSE reg

removePlayer(reg, a) == removeScan(reg, api[a].uniqueId, Len(reg))

Init ==
    /\ instancesCreated = 0
    /\ instances = <<>>
    /\ api = <<>>
    /\ ctl = <<>>
    /\ hasDestroy \in BOOLEAN
    /\ ops = ControllerOps
    /\ hooks = NoHooks
    /\ now = 1
    /\ debug = FALSE
    /\ stack = <<>>
    /\ used = 0
    /\ removed = {}
    /\ last = NoLast

(* ------------------- api.js:74-145  constructor ------------------------ *)
\* jwplayer(element): new Api(element), then the caller appends the new
\* handle to the list of active players.
register(reg, a) == Append(reg, a)

\* line 77: const uniqueId = instancesCreated++;
nextUniqueId_live == Len(instances)

nextUniqueId == instancesCreated

Construct(el) ==
    /\ stack = <<>>
    /\ used < MaxCalls
    /\ used' = used + 1
    /\ instancesCreated' = instancesCreated + 1
    /\ api' = Append(api, [id |-> el, uniqueId |-> nextUniqueId,
                           plugins |-> <<>>, qoe |-> tick(<<>>, "init"),
                           events |-> NoEvents, controller |-> Len(ctl) + 1])
    /\ ctl' = Append(ctl, setupController(Len(api) + 1))
    /\ instances' = register(instances, Len(api) + 1)
    /\ last' = [NoLast EXCEPT !.op = "new", !.a = Len(api) + 1]
    /\ UNCHANGED <<hasDestroy, ops, hooks, now, debug, removed, stack>>

(* ------------------- utils/backbone.events ----------------------------- *)
\* Events.on: the subscription, a callback and the context it is to be
\* invoked with, goes to the end of the list kept for its name.
on(ev, name, cb, ctx) == [ev EXCEPT ![name] = Append(@, [cb |-> cb, ctx |-> ctx])]

\* Events.off(name, callback, context), an argument not given being Null:
\* with no argument every subscription of the object goes; otherwise, under
\* the name given (under every name when none is), the entries go whose
\* callback is the one given (when one is) and whose context is the one given
\* (when one is), and the others stay in their order.
Keep(list, cb, ctx) ==
    SelectSeq(list, LAMBDA e : (cb # Null /\ e.cb # cb) \/ (ctx # Null /\ e.ctx # ctx))

off(ev, name, cb, ctx) ==
    IF name = Null /\ cb = Null /\ ctx = Null THEN [n \in DOMAIN ev |-> <<>>]
    ELSE [n \in DOMAIN ev |->
            IF name # Null /\ n # name THEN ev[n]
            ELSE IF cb = Null /\ ctx = Null THEN <<>>
            ELSE Keep(ev[n], cb, ctx)]

\* The callbacks one trigger invokes, in order: those of the literal name in
\* registration order, then those of "all".  The list is taken when the
\* dispatch starts; an off() during the dispatch does not shorten it.
Listed(ev, name) == IF name \in DOMAIN ev THEN ev[name] ELSE <<>>

\* a dispatch that walks each list from its newest entry
Subscribers_reversed(ev, name) ==
    [i \in 1..Len(Listed(ev, name)) |->
        LET e == Listed(ev, name)[Len(Listed(ev, name)) + 1 - i]
        IN  [k |-> e.cb, v |-> name, ctx |-> e.ctx]]
    \o [i \in 1..Len(Listed(ev, "all")) |->
        LET e == Listed(ev, "all")[Len(Listed(ev, "all")) + 1 - i]
        IN  [k |-> e.cb, v |-> "all", ctx |-> e.ctx]]

Subscribers(ev, name) ==
    [i \in 1..Len(Listed(ev, name)) |->
        [k |-> Listed(ev, name)[i].cb, v |-> name, ctx |-> Listed(ev, name)[i].ctx]]
    \o [i \in 1..Len(Listed(ev, "all")) |->
        [k |-> Listed(ev, "all")[i].cb, v |-> "all", ctx |-> Listed(ev, "all")[i].ctx]]

(* ------------------- api.js:43-50  resetPlayer ------------------------- *)
\* api.off(); controller.off(); if (controller.playerDestroy) playerDestroy()
\* setup() that forgets the teardown
resetPlayer_none(A, C, a, c) == [api |-> A, ctl |-> C]

\* a teardown that leaves the handle's subscriptions in place
resetPlayer_noApiOff(A, C, a, c) ==
    [api |-> A,
     ctl |-> [C EXCEPT ![c].listeners = <<>>,
                       ![c].destroyed = IF hasDestroy THEN @ + 1 ELSE @]]

\* a teardown that empties the handle's plugins as well
resetPlayer_dropsPlugins(A, C, a, c) ==
    [api |-> [A EXCEPT ![a].events = off(@, Null, Null, Null), ![a].plugins = <<>>],
     ctl |-> [C EXCEPT ![c].listeners = <<>>,
                       ![c].destroyed = IF hasDestroy THEN @ + 1 ELSE @]]

\* a teardown that leaves the controller's listeners attached
resetPlayer_noCtlOff(A, C, a, c) ==
    [api |-> [A EXCEPT ![a].events = off(@, Null, Null, Null)],
     ctl |-> [C EXCEPT ![c].destroyed = IF hasDestroy THEN @ + 1 ELSE @]]

resetPlayer(A, C, a, c) ==
    [api |-> [A EXCEPT ![a].events = off(@, Null, Null, Null)],
     ctl |-> [C EXCEPT ![c].listeners = <<>>,
                       ![c].destroyed = IF hasDestroy THEN @ + 1 ELSE @]]

(* ------------------- api.js:290-302  Api.trigger ----------------------- *)
Extend(p, k, v) == [f \in DOMAIN p \cup {k} |-> IF f = k THEN v ELSE p[f]]

\* _.isObject(args): an object is a record of its fields, a missing argument
\* is NoArgs and a primitive value v (a number, a string) is [prim |-> v]
isObject(args) == args # NoArgs /\ DOMAIN args # {"prim"}

\* a copy that keeps the type the caller's object came with
normalize_keepType(name, args) ==
    IF isObject(args) /\ "type" \in DOMAIN args THEN args ELSE Extend(args, "type", name)

\* lines 291-296: if (_.isObject(args)) args = _.extend({}, args); else args = {};
\* args.type = name;
normalize(name, args) ==
    IF isObject(args) THEN Extend(args, "type", name) ELSE [type |-> name]

\* a trigger that always takes Events.trigger
trigger_alwaysUnsafe(A, a, name, args, base, src) ==
    LET subs == Subscribers(A[a].events, name) IN
    IF subs = <<>> THEN base
    ELSE Append(base, [NoFrame EXCEPT !.op = "dispatch", !.a = a, !.name = name,
                                      !.pc = "trigger",
                                      !.payload = normalize(name, args),
                                      !.given = args, !.safe = FALSE,
                                      !.todo = subs, !.src = src])

\* a trigger that always takes Events.triggerSafe
trigger_alwaysSafe(A, a, name, args, base, src) ==
    LET subs == Subscribers(A[a].events, name) IN
    IF subs = <<>> THEN base
    ELSE Append(base, [NoFrame EXCEPT !.op = "dispatch", !.a = a, !.name = name,
                                      !.pc = "trigger",
                                      !.payload = normalize(name, args),
                                      !.given = args, !.safe = TRUE,
                                      !.todo = subs, !.src = src])

\* a trigger that sets the type on the caller's own object
trigger_inPlace(A, a, name, args, base, src) ==
    LET subs == Subscribers(A[a].events, name) IN
    IF subs = <<>> THEN base
    ELSE Append(base, [NoFrame EXCEPT !.op = "dispatch", !.a = a, !.name = name,
                                      !.pc = "trigger",
                                      !.payload = normalize(name, args),
                                      !.given = IF isObject(args)
                                                THEN normalize(name, args) ELSE args,
                                      !.safe = ~debug,
                                      !.todo = subs, !.src = src])

\* The stack after this.trigger(name, args) has been called above `base`:
\* one dispatch frame when somebody is subscribed, none otherwise.  Lines
\* 297-301 pick Events.trigger or Events.triggerSafe by jwplayer.debug; the
\* two invoke the same subscribers in the same order and differ only in what
\* becomes of an exception a subscriber throws (frame.safe).  frame.payload is
\* the object handed to the subscribers, frame.given the caller's object as
\* the call leaves it: lines 291-296 write to a copy, never to the original.
trigger(A, a, name, args, base, src) ==
    LET subs == Subscribers(A[a].events, name) IN
    IF subs = <<>> THEN base
    ELSE Append(base, [NoFrame EXCEPT !.op = "dispatch", !.a = a, !.name = name,
                                      !.pc = "trigger",
                                      !.payload = normalize(name, args),
                                      !.given = args, !.safe = ~debug,
                                      !.todo = subs, !.src = src])

(* ------------------- api.js:308-310  Api.triggerSafe ------------------- *)
\* return Events.triggerSafe.call(this, type, args): the caller's object goes
\* to the subscribers as it is.
triggerSafe(A, a, type, args, base) ==
    LET subs == Subscribers(A[a].events, type) IN
    IF subs = <<>> THEN base
    ELSE Append(base, [NoFrame EXCEPT !.op = "dispatch", !.a = a, !.name = type,
                                      !.pc = "triggerSafe",
                                      !.payload = args, !.given = args,
                                      !.safe = TRUE, !.todo = subs])

(* ------------------- api.js:154-159  callInternal ---------------------- *)
\* if (_controller[name]) return _controller[name].apply(_controller, args);
\* return null;   _controller is read when the call is made.
\* a forwarder that keeps the controller it was created with
callInternal_cached(a, name, arg) ==
    LET c == CHOOSE x \in 1..Len(ctl) :
                 ctl[x].api = a /\ \A y \in 1..Len(ctl) : ctl[y].api = a => x <= y
    IN
    IF name \in ops
    THEN [NoLast EXCEPT !.op = "callInternal", !.a = a, !.name = name, !.arg = arg,
                        !.target = c, !.this = c, !.result = "result"]
    ELSE [NoLast EXCEPT !.op = "callInternal", !.a = a, !.name = name, !.arg = arg]

\* a forwarder that applies whatever it finds under the name
callInternal_unguarded(a, name, arg) ==
    LET c == api[a].controller IN
    IF name \in ops
    THEN [NoLast EXCEPT !.op = "callInternal", !.a = a, !.name = name, !.arg = arg,
                        !.target = c, !.this = c, !.result = "result"]
    ELSE [NoLast EXCEPT !.op = "callInternal", !.a = a, !.name = name, !.arg = arg,
                        !.target = c, !.result = "TypeError"]

callInternal(a, name, arg) ==
    LET c == api[a].controller IN
    IF name \in ops
    THEN [NoLast EXCEPT !.op = "callInternal", !.a = a, !.name = name, !.arg = arg,
                        !.target = c, !.this = c, !.result = "result"]
    ELSE [NoLast EXCEPT !.op = "callInternal", !.a = a, !.name = name, !.arg = arg]

CallInternal(a, name, arg) ==
    /\ stack = <<>>
    /\ last' = callInternal(a, name, arg)
    /\ UNCHANGED <<instancesCreated, instances, api, ctl, hasDestroy, ops, hooks, now, debug, removed, stack, used>>

(* ------------------- api.js:254-256  Api.on ---------------------------- *)
On(a, name, cb, ctx) ==
    /\ stack = <<>>
    /\ used < MaxCalls
    /\ used' = used + 1
    /\ api' = [api EXCEPT ![a].events = on(@, name, cb, ctx)]
    /\ UNCHANGED <<instancesCreated, instances, ctl, hasDestroy, ops, hooks, now, debug, removed, stack, last>>

(* ------------------- api.js:168-188  Api.setup ------------------------- *)
\* what a setup(options) call costs of the MaxCalls budget
Cost(opts) ==
    1 + Cardinality({i \in 1..Len(opts.events) : opts.events[i].k \in LifecycleKeys})

\* a setup() that leaves the "ready" tick of the previous controller in place
setupReset_keepsReady(a, opts, base) ==
    LET c == api[a].controller
        A == [api EXCEPT ![a].qoe = tick(@, "setup")]
        r == resetPlayer(A, ctl, a, c)
    IN  /\ api' = r.api
        /\ ctl' = r.ctl
        /\ stack' = Append(base, [NoFrame EXCEPT !.op = "setup", !.a = a,
                                                 !.pc = "alloc", !.opts = opts,
                                                 !.todo = opts.events, !.src = c])
        /\ used' = used + 1
        /\ last' = [NoLast EXCEPT !.op = "setup.reset", !.a = a, !.target = c]
        /\ UNCHANGED <<instancesCreated, instances, hasDestroy, ops, hooks, now, debug, removed>>

\* lines 169-172: qoeTimer.clear('ready'); qoeTimer.tick('setup');
\* resetPlayer(this, _controller);
setupReset(a, opts, base) ==
    LET c == api[a].controller
        A == [api EXCEPT ![a].qoe = tick(clear(@, "ready"), "setup")]
        r == resetPlayer(A, ctl, a, c)
    IN  /\ api' = r.api
        /\ ctl' = r.ctl
        /\ stack' = Append(base, [NoFrame EXCEPT !.op = "setup", !.a = a,
                                                 !.pc = "alloc", !.opts = opts,
                                                 !.todo = opts.events, !.src = c])
        /\ used' = used + 1
        /\ last' = [NoLast EXCEPT !.op = "setup.reset", !.a = a, !.target = c]
        /\ UNCHANGED <<instancesCreated, instances, hasDestroy, ops, hooks, now, debug, removed>>

Setup(a, opts) ==
    /\ stack = <<>>
    /\ used + Cost(opts) <= MaxCalls
    /\ setupReset(a, opts, <<>>)

Top == stack[Len(stack)]
Base == SubSeq(stack, 1, Len(stack) - 1)

\* line 173: _controller = setupController(this, element);
SetupAlloc ==
    /\ stack # <<>>
    /\ Top.op = "setup" /\ Top.pc = "alloc"
    /\ ctl' = Append(ctl, setupController(Top.a))
    /\ api' = [api EXCEPT ![Top.a].controller = Len(ctl) + 1]
    /\ stack' = Append(Base, [Top EXCEPT !.pc = "bind", !.made = Len(ctl) + 1])
    /\ last' = [NoLast EXCEPT !.op = "setup.alloc", !.a = Top.a, !.target = Len(ctl) + 1]
    /\ UNCHANGED <<instancesCreated, instances, hasDestroy, ops, hooks, now, debug, removed, used>>

(* ------------------- api.js:196-208  Api.remove ------------------------ *)
\* a remove() that tears the player down before it fires "remove"
removeStart_resetFirst(a, base) ==
    LET c == api[a].controller
        r == resetPlayer(api, ctl, a, c)
    IN
    /\ instances' = removePlayer(instances, a)
    /\ api' = r.api
    /\ ctl' = r.ctl
    /\ stack' = trigger(r.api, a, "remove", NoArgs,
                        Append(base, [NoFrame EXCEPT !.op = "remove", !.a = a,
                                                     !.pc = "reset", !.src = c,
                                                     !.d0 = ctl[c].destroyed]),
                        0)
    /\ used' = used + 1
    /\ last' = [NoLast EXCEPT !.op = "remove.start", !.a = a]
    /\ removed' = removed \cup {a}
    /\ UNCHANGED <<instancesCreated, hasDestroy, ops, hooks, now, debug>>

\* lines 198-202: removePlayer(this); this.trigger('remove');
removeStart(a, base) ==
    LET c == api[a].controller IN
    /\ instances' = removePlayer(instances, a)
    /\ stack' = trigger(api, a, "remove", NoArgs,
                        Append(base, [NoFrame EXCEPT !.op = "remove", !.a = a,
                                                     !.pc = "reset", !.src = c,
                                                     !.d0 = ctl[c].destroyed]),
                        0)
    /\ used' = used + 1
    /\ last' = [NoLast EXCEPT !.op = "remove.start", !.a = a]
    /\ removed' = removed \cup {a}
    /\ UNCHANGED <<instancesCreated, api, ctl, hasDestroy, ops, hooks, now, debug>>

Remove(a) ==
    /\ stack = <<>>
    /\ used < MaxCalls
    /\ removeStart(a, <<>>)

\* line 205: resetPlayer(this, _controller); return this;
\* (last.name keeps the name a subscriber subscribed under while "remove"
\* was being delivered, when that was the last thing done before the reset)
RemoveReset ==
    /\ stack # <<>>
    /\ Top.op = "remove" /\ Top.pc = "reset"
    /\ LET c == api[Top.a].controller
           r == resetPlayer(api, ctl, Top.a, c)
       IN  /\ api' = r.api
           /\ ctl' = r.ctl
           /\ last' = [NoLast EXCEPT !.op = "remove", !.a = Top.a, !.target = c,
                                     !.name = IF last.op = "on" /\ last.a = Top.a
                                              THEN last.name ELSE ""]
    /\ stack' = Base
    /\ UNCHANGED <<instancesCreated, instances, hasDestroy, ops, hooks, now, debug, removed, used>>

(* ------------------- api.js:176-182  options.events -------------------- *)
\* a loop that finds no key to be a method of the handle
SetupBind_skip ==
    /\ stack # <<>>
    /\ Top.op = "setup" /\ Top.pc = "bind" /\ Top.todo # <<>>
    /\ stack' = Append(Base, [Top EXCEPT !.todo = Tail(@)])
    /\ UNCHANGED <<instancesCreated, instances, api, ctl, hasDestroy, ops, hooks, now, debug, removed, used, last>>

\* const fn = this[evt]; if (typeof fn === 'function') fn.call(this, val);
SetupBind ==
    /\ stack # <<>>
    /\ Top.op = "setup" /\ Top.pc = "bind" /\ Top.todo # <<>>
    /\ LET a == Top.a
           key == Head(Top.todo).k
           val == Head(Top.todo).v
           rest == Append(Base, [Top EXCEPT !.todo = Tail(@)])
       IN  CASE key = "onReady" ->
                  /\ api' = [api EXCEPT ![a].events = on(@, "ready", val, Null)]
                  /\ stack' = rest
                  /\ UNCHANGED <<instancesCreated, instances, ctl, hasDestroy, ops, hooks, now, debug, removed, used, last>>
            [] key = "setVolume" ->
                  /\ last' = callInternal(a, "setVolume", val)
                  /\ stack' = rest
                  /\ UNCHANGED <<instancesCreated, instances, api, ctl, hasDestroy, ops, hooks, now, debug, removed, used>>
            [] key = "remove" -> removeStart(a, rest)
            [] key = "setup" -> setupReset(a, Nested(val), rest)
            [] key \notin ApiMethods ->
                  /\ stack' = rest
                  /\ UNCHANGED <<instancesCreated, instances, api, ctl, hasDestroy, ops, hooks, now, debug, removed, used,
                                 last>>

\* lines 184-187: options.id = this.id; _controller.setup(options, this);
\* return this;   (last.arg is the id of the options the controller is given)
SetupFinish ==
    /\ stack # <<>>
    /\ Top.op = "setup" /\ Top.pc = "bind" /\ Top.todo = <<>>
    /\ LET a == Top.a
           c == api[a].controller
           options == [Top.opts EXCEPT !.id = api[a].id]
       IN  /\ ctl' = [ctl EXCEPT ![c].setups = @ + 1]
           /\ last' = [NoLast EXCEPT !.op = "setup", !.a = a, !.target = c, !.this = c,
                                     !.arg = options.id, !.result = "this"]
    /\ stack' = Base
    /\ UNCHANGED <<instancesCreated, instances, api, hasDestroy, ops, hooks, now, debug, removed, used>>

(* ------------------- api.js:27-33  the controller's listeners ---------- *)
\* The controller emits `name` with the event object p: its "ready" listener
\* (lines 27-30) runs first, then its "all" listener (lines 31-33), which
\* re-emits on the handle.  A controller without listeners emits to nobody.
\* Any controller ever allocated may emit, a replaced one too; controllers
\* emit from the runtime's event loop, when no call on a handle is running.
Has(seq, x) == \E i \in 1..Len(seq) : seq[i] = x

ControllerEmit(c, name, p) ==
    /\ stack = <<>>
    /\ LET a == ctl[c].api
           stamp == name = "ready" /\ Has(ctl[c].listeners, "ready")
           A == IF stamp THEN [api EXCEPT ![a].qoe = tick(@, "ready")] ELSE api
           ev == IF stamp
                 THEN Extend(p, "setupTime", between(A[a].qoe, "setup", "ready"))
                 ELSE p
       IN  /\ api' = A
           /\ stack' = IF Has(ctl[c].listeners, "all")
                       THEN trigger(A, a, name, ev, <<>>, c)
                       ELSE <<>>
    /\ UNCHANGED <<instancesCreated, instances, ctl, hasDestroy, ops, hooks, now, debug, removed, used, last>>

(* ------------------- subscribers --------------------------------------- *)
\* The next subscriber of the running dispatch is invoked.  What it does is
\* the integrator's code: it returns, or it calls setup() or remove() on the
\* handle that delivered the event before it returns.
Advanced(re) ==
    IF Tail(Top.todo) = <<>> /\ ~re THEN Base
    ELSE Append(Base, [Top EXCEPT !.todo = Tail(@), !.reent = @ \/ re])

DeliverReturn ==
    /\ stack # <<>>
    /\ Top.op = "dispatch" /\ Top.todo # <<>>
    /\ stack' = Advanced(FALSE)
    /\ UNCHANGED <<instancesCreated, instances, api, ctl, hasDestroy, ops, hooks, now, debug, removed, used, last>>

\* the subscriber subscribes cb under `name` on the handle, then returns
DeliverOn(name, cb) ==
    /\ stack # <<>>
    /\ Top.op = "dispatch" /\ Top.todo # <<>>
    /\ used < MaxCalls
    /\ used' = used + 1
    /\ api' = [api EXCEPT ![Top.a].events = on(@, name, cb, Null)]
    /\ stack' = Advanced(FALSE)
    /\ last' = [NoLast EXCEPT !.op = "on", !.a = Top.a, !.name = name]
    /\ UNCHANGED <<instancesCreated, instances, ctl, hasDestroy, ops, hooks, now, debug, removed>>

DeliverSetup(opts) ==
    /\ stack # <<>>
    /\ Top.op = "dispatch" /\ Top.todo # <<>>
    /\ used + Cost(opts) <= MaxCalls
    /\ setupReset(Top.a, opts, Advanced(TRUE))

DeliverRemove ==
    /\ stack # <<>>
    /\ Top.op = "dispatch" /\ Top.todo # <<>>
    /\ used < MaxCalls
    /\ removeStart(Top.a, Advanced(TRUE))

\* The dispatch has invoked its last subscriber and returns to its caller.
DispatchEnd ==
    /\ stack # <<>>
    /\ Top.op = "dispatch" /\ Top.todo = <<>>
    /\ stack' = Base
    /\ UNCHANGED <<instancesCreated, instances, api, ctl, hasDestroy, ops, hooks, now, debug, removed, used, last>>

\* The handle's life cycle and its events.
Next ==
    \/ \E el \in ElementIds : Construct(el)
    \/ \E a \in Apis, opts \in Options : Setup(a, opts)
    \/ SetupAlloc
    \/ SetupBind
    \/ SetupFinish
    \/ \E a \in Apis : Remove(a)
    \/ RemoveReset
    \/ \E a \in Apis, n \in SubNames, cb \in Callbacks : On(a, n, cb, Null)
    \/ \E c \in Ctls, n \in CtlEvents, p \in CtlPayloads : ControllerEmit(c, n, p)
    \/ DeliverReturn
    \/ \E n \in SubNames, cb \in Callbacks : DeliverOn(n, cb)
    \/ \E opts \in Options : DeliverSetup(opts)
    \/ DeliverRemove
    \/ DispatchEnd

Spec == Init /\ [][Next]_vars

\* The handle's life cycle and the calls forwarded to its controller.
NextCall ==
    \/ \E el \in ElementIds : Construct(el)
    \/ \E a \in Apis, opts \in Options : Setup(a, opts)
    \/ SetupAlloc
    \/ SetupBind
    \/ SetupFinish
    \/ \E a \in Apis : Remove(a)
    \/ RemoveReset
    \/ \E a \in Apis, n \in CallNames, x \in CallArgs : CallInternal(a, n, x)

SpecCall == Init /\ [][NextCall]_vars

(* ------------------- setup() and its options.events -------------------- *)
\* setup() with options whose events name several keys, and whose id is or
\* is not the id of the handle's element.
BindMaps == EventMaps \cup
            {<<[k |-> "setVolume", v |-> "50"], [k |-> "nosuch", v |-> "x"]>>,
             <<[k |-> "onReady", v |-> "f"], [k |-> "setVolume", v |-> "50"]>>,
             <<[k |-> "remove", v |-> "x"], [k |-> "setVolume", v |-> "50"]>>,
             <<[k |-> "setup", v |-> "{}"], [k |-> "setVolume", v |-> "50"]>>}
SetupOptions == {[id |-> i, events |-> e] : i \in {"other", "player"}, e \in BindMaps}

NextSetup ==
    \/ \E el \in ElementIds : Construct(el)
    \/ \E a \in Apis, opts \in SetupOptions : Setup(a, opts)
    \/ SetupAlloc
    \/ SetupBind
    \/ SetupFinish
    \/ \E a \in Apis : Remove(a)
    \/ RemoveReset

SpecSetup == Init /\ [][NextSetup]_vars

(* ------------------- the handle as an event bus ----------------------- *)
\* One handle, its subscriptions and the events triggered on it directly.
\* subscriptions made in one run
MaxSubs == 2
\* subscribers: f returns, boom throws whenever it is invoked
BusCallbacks == {"f", "boom"}
Throws(cb) == cb = "boom"
\* the context a subscription is bound to; Null when none was given
Contexts == {Null, "c"}
BusNames == {"ready", "all"}
TriggerNames == {"ready", "time"}
\* what the caller passes as payload: nothing, a number, an object, an
\* object that has a type of its own
BusPayloads == {NoArgs, [prim |-> "5"], [pos |-> "1"], [pos |-> "1", type |-> "stale"]}

InitBus ==
    /\ now = 1
    /\ instancesCreated = 1
    /\ api = <<[id |-> "player", uniqueId |-> 0, plugins |-> <<>>,
                qoe |-> tick(<<>>, "init"),
                events |-> NoEvents, controller |-> 1]>>
    /\ ctl = <<setupController(1)>>
    /\ instances = <<1>>
    /\ hasDestroy = TRUE
    /\ ops = ControllerOps
    /\ hooks = NoHooks
    /\ debug = FALSE
    /\ stack = <<>>
    /\ used = 0
    /\ removed = {}
    /\ last = NoLast

\* jwplayer.debug = b, by the integrator at any moment
SetDebug(b) ==
    /\ debug # b
    /\ debug' = b
    /\ UNCHANGED <<instancesCreated, instances, api, ctl, hasDestroy, ops, hooks, now, stack, used,
                   removed, last>>

\* an off that forwards the name and the callback only
Off_dropsContext(a, name, cb, ctx) ==
    /\ stack = <<>>
    /\ api' = [api EXCEPT ![a].events = off(@, name, cb, Null)]
    /\ UNCHANGED <<instancesCreated, instances, ctl, hasDestroy, ops, hooks, now, debug, stack, used, removed,
                   last>>

\* api.js:277-279  off(name, callback, context)
Off(a, name, cb, ctx) ==
    /\ stack = <<>>
    /\ api' = [api EXCEPT ![a].events = off(@, name, cb, ctx)]
    /\ UNCHANGED <<instancesCreated, instances, ctl, hasDestroy, ops, hooks, now, debug, stack, used, removed,
                   last>>

\* what a finished call of trigger or triggerSafe leaves behind
Outcome(f, result, fired) ==
    [NoLast EXCEPT !.op = f.pc, !.a = f.a, !.name = f.name, !.result = result,
                   !.fired = fired, !.payload = f.payload, !.given = f.given]

\* api.js:290-302  trigger(name, args), called by the integrator
Trigger(a, name, args) ==
    /\ stack = <<>>
    /\ stack' = trigger(api, a, name, args, <<>>, 0)
    /\ last' = IF Subscribers(api[a].events, name) = <<>>
               THEN [NoLast EXCEPT !.op = "trigger", !.a = a, !.name = name,
                                   !.result = "this", !.given = args,
                                   !.payload = normalize(name, args)]
               ELSE NoLast
    /\ UNCHANGED <<instancesCreated, instances, api, ctl, hasDestroy, ops, hooks, now, debug, used, removed>>

\* api.js:308-310  triggerSafe(type, args), called by the integrator
TriggerSafe(a, type, args) ==
    /\ stack = <<>>
    /\ stack' = triggerSafe(api, a, type, args, <<>>)
    /\ last' = IF Subscribers(api[a].events, type) = <<>>
               THEN [NoLast EXCEPT !.op = "triggerSafe", !.a = a, !.name = type,
                                   !.result = "this", !.given = args, !.payload = args]
               ELSE NoLast
    /\ UNCHANGED <<instancesCreated, instances, api, ctl, hasDestroy, ops, hooks, now, debug, used, removed>>

\* Events.trigger / Events.triggerSafe invoke the next subscriber: one under
\* the literal name gets (payload), one under "all" gets (name, payload).
\* An exception it throws is caught by triggerSafe, which goes on with the
\* next subscriber; Events.trigger lets it through to the caller of trigger.
\* A hook of a plugin instance counts its invocations.
Invoke ==
    /\ stack # <<>>
    /\ Top.op = "dispatch" /\ Top.todo # <<>>
    /\ LET e == Head(Top.todo)
           got == IF e.v = "all" THEN [name |-> Top.name, payload |-> Top.payload]
                                 ELSE [payload |-> Top.payload]
           done == Append(Top.done, [k |-> e.k, v |-> e.v, ctx |-> e.ctx, got |-> got])
           thrown == Throws(e.k) /\ ~Top.safe
       IN  IF thrown \/ Tail(Top.todo) = <<>>
           THEN /\ stack' = Base
                /\ last' = Outcome(Top, IF thrown THEN "throws" ELSE "this", done)
           ELSE /\ stack' = Append(Base, [Top EXCEPT !.todo = Tail(@), !.done = done])
                /\ last' = last
    /\ hooks' = IF Head(Top.todo).k \in PluginHooks
                THEN [hooks EXCEPT ![Head(Top.todo).k] = @ + 1] ELSE hooks
    /\ UNCHANGED <<instancesCreated, instances, api, ctl, hasDestroy, ops, now, debug, used,
                   removed>>

NextBus ==
    \/ \E a \in Apis, n \in BusNames, cb \in BusCallbacks, ctx \in Contexts :
          used < MaxSubs /\ On(a, n, cb, ctx)
    \/ \E a \in Apis, n \in TriggerNames, p \in BusPayloads : Trigger(a, n, p)
    \/ \E a \in Apis, n \in TriggerNames, p \in BusPayloads : TriggerSafe(a, n, p)
    \/ Invoke
    \/ \E b \in BOOLEAN : SetDebug(b)

SpecBus == InitBus /\ [][NextBus]_vars

\* One handle, subscribing and unsubscribing.
NextOff ==
    \/ \E a \in Apis, n \in SubNames, cb \in BusCallbacks, ctx \in Contexts :
          used < MaxSubs /\ On(a, n, cb, ctx)
    \/ \E a \in Apis, n \in SubNames \cup {Null}, cb \in BusCallbacks \cup {Null},
          ctx \in Contexts : Off(a, n, cb, ctx)

SpecOff == InitBus /\ [][NextOff]_vars

(* ------------------- api.js:980-998  plugins --------------------------- *)
\* invocations of one hook after which no further event is triggered
MaxFired == 2
PluginNames == {"foo", "bar"}
\* plugin instances: p has a resize capability, q has none
PluginInstances ==
    {[id |-> "p", addToPlayer |-> "p.addToPlayer", resize |-> TRUE,
      resizeHandler |-> "p.resizeHandler"],
     [id |-> "q", addToPlayer |-> "q.addToPlayer", resize |-> FALSE,
      resizeHandler |-> Null]}
\* the names a handle with plugins has subscriptions under
PluginSubNames == SubNames \cup {"resize"}

\* an addPlugin that stores the instance and subscribes nothing to "ready"
addPlugin_noReady(a, name, inst) ==
    LET stored == [api EXCEPT ![a].plugins = Extend(@, name, inst)]
    IN  IF inst.resize
        THEN [stored EXCEPT ![a].events = on(@, "resize", inst.resizeHandler, Null)]
        ELSE stored

\* lines 990-997: this.plugins[name] = pluginInstance;
\* this.on('ready', pluginInstance.addToPlayer);
\* if (pluginInstance.resize) this.on('resize', pluginInstance.resizeHandler);
addPlugin(a, name, inst) ==
    LET stored == [api EXCEPT ![a].plugins = Extend(@, name, inst)]
        ready == [stored EXCEPT ![a].events = on(@, "ready", inst.addToPlayer, Null)]
    IN  IF inst.resize
        THEN [ready EXCEPT ![a].events = on(@, "resize", inst.resizeHandler, Null)]
        ELSE ready

AddPlugin(a, name, inst) ==
    /\ stack = <<>>
    /\ used < MaxCalls
    /\ used' = used + 1
    /\ api' = addPlugin(a, name, inst)
    /\ last' = [NoLast EXCEPT !.op = "addPlugin", !.a = a, !.name = name, !.value = inst]
    /\ UNCHANGED <<instancesCreated, instances, ctl, hasDestroy, ops, hooks, now, debug, stack,
                   removed>>

\* line 981: return this.plugins[name];   (NoArgs is undefined)
getPlugin(a, name) ==
    IF name \in DOMAIN api[a].plugins THEN api[a].plugins[name] ELSE NoArgs

GetPlugin(a, name) ==
    /\ stack = <<>>
    /\ last' = [NoLast EXCEPT !.op = "getPlugin", !.a = a, !.name = name,
                              !.result = "returns", !.value = getPlugin(a, name)]
    /\ UNCHANGED <<instancesCreated, instances, api, ctl, hasDestroy, ops, hooks, now, debug,
                   stack, used, removed>>

InitPlugin ==
    /\ now = 1
    /\ instancesCreated = 1
    /\ api = <<[id |-> "player", uniqueId |-> 0, plugins |-> <<>>,
                qoe |-> tick(<<>>, "init"),
                events |-> [n \in PluginSubNames |-> <<>>], controller |-> 1]>>
    /\ ctl = <<setupController(1)>>
    /\ instances = <<1>>
    /\ hasDestroy = TRUE
    /\ ops = ControllerOps
    /\ hooks = NoHooks
    /\ debug = FALSE
    /\ stack = <<>>
    /\ used = 0
    /\ removed = {}
    /\ last = NoLast

\* no hook has been invoked MaxFired times yet
Quiet == \A h \in PluginHooks : hooks[h] < MaxFired
PluginEvents == {"ready", "resize"}

\* One handle and its plugins, with neither setup() nor off() called on it.
NextPlugin ==
    \/ \E a \in Apis, n \in PluginNames, i \in PluginInstances :
          used < MaxSubs /\ AddPlugin(a, n, i)
    \/ \E a \in Apis, n \in PluginNames : GetPlugin(a, n)
    \/ \E a \in Apis, cb \in BusCallbacks : used < MaxSubs /\ On(a, "ready", cb, Null)
    \/ \E a \in Apis, n \in PluginEvents : Quiet /\ Trigger(a, n, NoArgs)
    \/ Invoke
    \/ \E a \in Apis : Remove(a)
    \/ RemoveReset
    \/ \E b \in BOOLEAN : SetDebug(b)

SpecPlugin == InitPlugin /\ [][NextPlugin]_vars

\* the options of a setup() on a handle with plugins
PluginOptions ==
    {[id |-> "player", events |-> e] :
        e \in {<<>>, <<[k |-> "onReady", v |-> "f"]>>,
               <<[k |-> "onReady", v |-> "f"], [k |-> "remove", v |-> "x"]>>}}

\* One handle, its plugins and its subscriptions, with setup(), remove() and
\* off() called on it.
NextRewire ==
    \/ \E a \in Apis, n \in PluginNames, i \in PluginInstances :
          used < MaxSubs /\ AddPlugin(a, n, i)
    \/ \E a \in Apis, n \in PluginNames : GetPlugin(a, n)
    \/ \E a \in Apis, n \in PluginEvents : used < MaxSubs /\ On(a, n, "f", Null)
    \/ \E a \in Apis, n \in {"ready", Null}, cb \in {"f", Null} : Off(a, n, cb, Null)
    \/ \E a \in Apis, n \in PluginEvents : Quiet /\ Trigger(a, n, NoArgs)
    \/ Invoke
    \/ \E a \in Apis, opts \in PluginOptions : Setup(a, opts)
    \/ SetupAlloc
    \/ SetupBind
    \/ SetupFinish
    \/ \E a \in Apis : Remove(a)
    \/ RemoveReset

SpecRewire == InitPlugin /\ [][NextRewire]_vars

(* ------------------- the QoE timer of a handle ------------------------- *)
\* the last instant of the clock
MaxTime == 3
\* time passes between two calls
Tick ==
    /\ stack = <<>>
    /\ now < MaxTime
    /\ now' = now + 1
    /\ UNCHANGED <<instancesCreated, instances, api, ctl, hasDestroy, ops, hooks, debug, stack,
                   used, removed, last>>

QoeOptions == {[id |-> "player", events |-> e] :
                  e \in {<<>>, <<[k |-> "onReady", v |-> "f"]>>}}

\* One handle, its controllers' events and the clock.
NextQoe ==
    \/ Tick
    \/ \E a \in Apis, opts \in QoeOptions : Setup(a, opts)
    \/ SetupAlloc
    \/ SetupBind
    \/ SetupFinish
    \/ \E a \in Apis : used < MaxSubs /\ On(a, "ready", "f", Null)
    \/ \E c \in Ctls, n \in CtlEvents, p \in CtlPayloads : ControllerEmit(c, n, p)
    \/ Invoke

SpecQoe == InitBus /\ [][NextQoe]_vars

\* setup() with options.events that subscribe, or that name remove or setup
StampOptions == {[id |-> "player", events |-> e] :
                    e \in {<<>>, <<[k |-> "onReady", v |-> "f"]>>,
                           <<[k |-> "remove", v |-> "x"]>>,
                           <<[k |-> "setup", v |-> "{}"]>>}}

\* One handle, the clock, its whole life cycle, the "ready" of each of its
\* controllers, and subscribers that call setup() or remove() when invoked.
NextStamp ==
    \/ Tick
    \/ \E a \in Apis, opts \in StampOptions : Setup(a, opts)
    \/ SetupAlloc
    \/ SetupBind
    \/ SetupFinish
    \/ \E a \in Apis : Remove(a)
    \/ RemoveReset
    \/ \E a \in Apis : On(a, "ready", "f", Null)
    \/ \E c \in Ctls, p \in CtlPayloads : ControllerEmit(c, "ready", p)
    \/ DeliverReturn
    \/ \E opts \in StampOptions : DeliverSetup(opts)
    \/ DeliverRemove
    \/ DispatchEnd

SpecStamp == InitBus /\ [][NextStamp]_vars

(* ------------------- operations forwarded to the controller ------------ *)
\* JavaScript values: undefined is NoArgs, null is NullValue, a primitive v
\* is [prim |-> v] and an object is the record of its fields.
NullValue == [prim |-> Null]
True == [prim |-> "true"]
False == [prim |-> "false"]
\* items of the longest playlist a controller holds
MaxItems == 2
\* every operation a public method of the handle forwards here
ForwardedOps == {"play", "pause", "getState", "get", "getItemQoe"}
\* the operations a Controller class may define: all, or all but some
OpSets == {ForwardedOps, ForwardedOps \ {"getItemQoe"}, ForwardedOps \ {"get"},
           ForwardedOps \ {"play", "pause", "getState"}}
\* events/states: what getState answers; PLAYING and BUFFERING are two of them
States == {"idle", "buffering", "playing", "paused"}
\* the first argument of play() and pause(): none, a boolean, a number, a meta
PlayArgs == {NoArgs, True, False, [prim |-> "1"], [reason |-> "interaction"]}
\* the second argument of play() and pause(): none or a meta
Metas == {NoArgs, [reason |-> "interaction"]}
Item(i) == [file |-> i]
\* a playlist is the record of its items, items[1] being the item at index 0
Playlists == {[items |-> [i \in 1..n |-> Item(i - 1)]] : n \in 0..MaxItems}
\* the index asked of getPlaylistItem: none, or a number
Indexes == {NoArgs} \cup {[prim |-> i] : i \in -1..MaxItems}

\* a forwarded call whose operation, when the controller defines it, returns v
Answer(r, v) == IF r.target # 0 THEN [r EXCEPT !.value = v] ELSE r
\* what callInternal returned: the operation's value, or null
Returned(r) == IF r.target # 0 THEN r.value ELSE NullValue

\* a play() that takes every first argument but false for a request to play
play_neverToggles(a, state, meta, st) ==
    LET given == IF isObject(state) /\ "reason" \in DOMAIN state THEN state ELSE meta
        m == IF given = NoArgs THEN [reason |-> "external"] ELSE given
    IN  IF state = False
        THEN <<callInternal(a, "pause", m)>>
        ELSE <<callInternal(a, "play", m)>>

\* api.js:768-794  play(state, meta); the controller is in the state st
play(a, state, meta, st) ==
    LET given == IF isObject(state) /\ "reason" \in DOMAIN state THEN state ELSE meta
        m == IF given = NoArgs THEN [reason |-> "external"] ELSE given
    IN  IF state = True
        THEN <<callInternal(a, "play", m)>>
        ELSE IF state = False
        THEN <<callInternal(a, "pause", m)>>
        ELSE LET g == Answer(callInternal(a, "getState", NoArgs), [prim |-> st])
             IN  IF Returned(g) \in {[prim |-> "playing"], [prim |-> "buffering"]}
                 THEN <<g, callInternal(a, "pause", m)>>
                 ELSE <<g, callInternal(a, "play", m)>>

\* api.js:802-809  pause(state, meta)
\* if (_.isBoolean(state)) return this.play(!state, meta); return this.play(meta);
pause(a, state, meta, st) ==
    IF state \in {True, False}
    THEN play(a, IF state = True THEN False ELSE True, meta, st)
    ELSE play(a, meta, NoArgs, st)

Play(a, state, meta) ==
    /\ stack = <<>>
    /\ \E st \in States :
          last' = [NoLast EXCEPT !.op = "play", !.a = a, !.given = state, !.arg = meta,
                                 !.calls = play(a, state, meta, st), !.result = "this"]
    /\ UNCHANGED <<instancesCreated, instances, api, ctl, hasDestroy, ops, hooks, now, debug,
                   stack, used, removed>>

Pause(a, state, meta) ==
    /\ stack = <<>>
    /\ \E st \in States :
          last' = [NoLast EXCEPT !.op = "pause", !.a = a, !.given = state, !.arg = meta,
                                 !.calls = pause(a, state, meta, st), !.result = "this"]
    /\ UNCHANGED <<instancesCreated, instances, api, ctl, hasDestroy, ops, hooks, now, debug,
                   stack, used, removed>>

\* api.js:517-526  getPlaylistItem(index); the controller holds the playlist
\* pl and its current item is cur.  utils.exists(index) is false for
\* undefined; playlist[index] is undefined when no item is at the index.
getPlaylistItem(a, index, pl, cur) ==
    IF index = NoArgs
    THEN LET g == Answer(callInternal(a, "get", "playlistItem"), cur)
         IN  [calls |-> <<g>>, value |-> Returned(g)]
    ELSE LET g == Answer(callInternal(a, "get", "playlist"), pl)
             playlist == Returned(g)
         IN  [calls |-> <<g>>,
              value |-> IF playlist # NullValue
                        THEN IF index.prim + 1 \in DOMAIN playlist.items
                             THEN playlist.items[index.prim + 1] ELSE NoArgs
                        ELSE NullValue]

GetPlaylistItem(a, index) ==
    /\ stack = <<>>
    /\ \E pl \in Playlists, cur \in {Item(0)} :
          LET r == getPlaylistItem(a, index, pl, cur)
          IN  last' = [NoLast EXCEPT !.op = "getPlaylistItem", !.a = a, !.given = index,
                                     !.calls = r.calls, !.value = r.value,
                                     !.result = "returns"]
    /\ UNCHANGED <<instancesCreated, instances, api, ctl, hasDestroy, ops, hooks, now, debug,
                   stack, used, removed>>

\* api.js:316-336  qoe(): qoeItem.getFirstFrame() is called on whatever
\* callInternal('getItemQoe') returned, null included.
qoe(a) ==
    LET g == Answer(callInternal(a, "getItemQoe", NoArgs), [item |-> "qoe"])
        qoeItem == Returned(g)
        setupTime == between(api[a].qoe, "setup", "ready")
    IN  IF qoeItem = NullValue
        THEN [calls |-> <<g>>, result |-> "TypeError", value |-> NoArgs]
        ELSE [calls |-> <<g>>, result |-> "returns",
              value |-> [setupTime |-> setupTime, firstFrame |-> "firstFrame",
                         player |-> api[a].qoe, item |-> "dump"]]

Qoe(a) ==
    /\ stack = <<>>
    /\ LET r == qoe(a)
       IN  last' = [NoLast EXCEPT !.op = "qoe", !.a = a, !.calls = r.calls,
                                  !.result = r.result, !.value = r.value]
    /\ UNCHANGED <<instancesCreated, instances, api, ctl, hasDestroy, ops, hooks, now, debug,
                   stack, used, removed>>

InitForward ==
    /\ now = 1
    /\ instancesCreated = 1
    /\ api = <<[id |-> "player", uniqueId |-> 0, plugins |-> <<>>,
                qoe |-> tick(<<>>, "init"), events |-> NoEvents, controller |-> 1]>>
    /\ ctl = <<setupController(1)>>
    /\ instances = <<1>>
    /\ hasDestroy = TRUE
    /\ ops \in OpSets
    /\ hooks = NoHooks
    /\ debug = FALSE
    /\ stack = <<>>
    /\ used = 0
    /\ removed = {}
    /\ last = NoLast

\* One handle and the public operations that forward to its controller,
\* whatever operations the Controller class defines.
NextForward ==
    \/ \E a \in Apis, state \in PlayArgs, meta \in Metas : Play(a, state, meta)
    \/ \E a \in Apis, state \in PlayArgs, meta \in Metas : Pause(a, state, meta)
    \/ \E a \in Apis, index \in Indexes : GetPlaylistItem(a, index)
    \/ \E a \in Apis : Qoe(a)

SpecForward == InitForward /\ [][NextForward]_vars

(* ------------------- removePlayer on any list of players --------------- *)
\* The list of active players is a plain array other modules can push to:
\* removePlayer is applied to every list of at most MaxList entries over
\* the handles constructed, an entry may be there more than once.
MaxList == 3

RECURSIVE Lists(_, _)
Lists(S, n) == IF n = 0 THEN {<<>>}
               ELSE Lists(S, n - 1) \cup
                    {Append(l, x) : l \in {m \in Lists(S, n - 1) : Len(m) = n - 1}, x \in S}

InitList ==
    /\ now = 1
    /\ instancesCreated = MaxList
    /\ api = [a \in 1..MaxList |->
                 [id |-> "player", uniqueId |-> a - 1, plugins |-> <<>>,
                  qoe |-> tick(<<>>, "init"), events |-> NoEvents, controller |-> a]]
    /\ ctl = [a \in 1..MaxList |-> setupController(a)]
    /\ instances \in Lists(1..MaxList, MaxList)
    /\ hasDestroy \in BOOLEAN
    /\ ops = ControllerOps
    /\ hooks = NoHooks
    /\ debug = FALSE
    /\ stack = <<>>
    /\ used = 0
    /\ removed = {}
    /\ last = NoLast

Unregister(a) ==
    /\ instances' = removePlayer(instances, a)
    /\ last' = [NoLast EXCEPT !.op = "removePlayer", !.a = a]
    /\ UNCHANGED <<instancesCreated, api, ctl, hasDestroy, ops, hooks, now, debug, stack, used, removed>>

NextList == \E a \in Apis : Unregister(a)

SpecList == InitList /\ [][NextList]_vars
(* ======================= the contract of the facade ==================== *)
OfApi(a) == {c \in Ctls : ctl[c].api = a}
\* a controller is live while its listeners are attached and it has not been destroyed
Live(c) == ctl[c].listeners # <<>> /\ ctl[c].destroyed = 0
\* a controller is torn down: listeners detached, destroy hook (if any) run
Torn(c) == ctl[c].listeners = <<>> /\ (hasDestroy => ctl[c].destroyed > 0)
Frames == 1..Len(stack)

\* C1: in every reachable state, re-entrant setup()/remove() from subscribers
\* included, each handle has at most one live controller.
C1_OneLiveController ==
    \A a \in Apis : Cardinality({c \in OfApi(a) : Live(c)}) <= 1

\* a subscriber called setup() during a dispatch and the replacement is allocated
C1_Witness ==
    \E i \in Frames : /\ i > 1
                      /\ stack[i].op = "setup" /\ stack[i].pc = "bind"
                      /\ stack[i - 1].op = "dispatch"
                      /\ Cardinality(OfApi(stack[i].a)) >= 2
                      /\ Live(api[stack[i].a].controller)

\* C2: the step that allocates the replacement controller finds the previous
\* one torn down, and a dispatch of a controller's event only ever starts for
\* the controller that is the handle's current, live one: an earlier
\* controller's events are not re-emitted after its replacement.
C2_TeardownBeforeReplace ==
    [][/\ \A a \in Apis : api'[a].controller # api[a].controller
                            => Torn(api[a].controller)
       /\ \A c \in Ctls :
            (stack = <<>> /\ stack' # <<>> /\ stack'[1].op = "dispatch"
                /\ stack'[1].src = c)
            => (api[ctl[c].api].controller = c /\ Live(c))
       /\ \A a \in Apis : \A c \in OfApi(a) :
            (c # api'[a].controller /\ Len(ctl') > Len(ctl)) => ~Live(c)']_vars

\* setup() has torn down the handle's first controller and allocated the next
C2_Witness ==
    /\ last.op = "setup.alloc"
    /\ \E c \in OfApi(last.a) : c # last.target /\ Torn(c)
    /\ Live(last.target)

\* C3: an event the handle's live controller emits starts a dispatch on the
\* handle under the same name, with a payload whose type is that name, to the
\* subscribers of the name followed by those of "all".
C3_ReEmitted ==
    [][\A c \in Ctls, n \in CtlEvents, p \in CtlPayloads :
        (ControllerEmit(c, n, p) /\ api[ctl[c].api].controller = c /\ Live(c))
        => LET a == ctl[c].api
               subs == Subscribers(api[a].events, n)
           IN  IF subs = <<>> THEN stack' = <<>>
               ELSE /\ Len(stack') = 1
                    /\ stack'[1].op = "dispatch"
                    /\ stack'[1].a = a
                    /\ stack'[1].name = n
                    /\ stack'[1].payload.type = n
                    /\ \A f \in DOMAIN p \ {"type"} : stack'[1].payload[f] = p[f]
                    /\ stack'[1].todo = subs
                    /\ stack'[1].src = c]_vars

\* a controller's event is being delivered to a subscriber of its name and
\* then to a wildcard subscriber
C3_Witness ==
    /\ Len(stack) = 1
    /\ stack[1].op = "dispatch" /\ stack[1].src # 0
    /\ Len(stack[1].todo) = 2
    /\ stack[1].todo[1].v = stack[1].name /\ stack[1].todo[2].v = "all"
    /\ stack[1].payload.type = stack[1].name
\* the controller the handle's most recent setup() (or its constructor) created
Newest(a) == CHOOSE c \in OfApi(a) : \A d \in OfApi(a) : d <= c

\* C4: a forwarded call reaches the controller the most recent setup() made,
\* with that controller as `this` and the argument given, never an earlier one.
C4_CallsCurrentController ==
    (last.op = "callInternal" /\ last.name \in ControllerOps)
    => /\ last.target = Newest(last.a)
       /\ last.this = last.target
       /\ last.arg \in CallArgs
       /\ last.result # Null

\* a call forwarded after two setup() calls on the handle
C4_Witness ==
    /\ stack = <<>>
    /\ last.op = "callInternal" /\ last.target # 0
    /\ Cardinality(OfApi(last.a)) >= 3
    /\ ctl[last.target].setups = 1

\* C5: callInternal of a name the controller does not expose returns null,
\* invokes nothing, raises nothing and changes nothing of the handle, its
\* controller, its subscriptions, its plugins or the list of players.
C5_MissingOperationIsNull ==
    [][\A a \in Apis, n \in CallNames \ ControllerOps, x \in CallArgs :
        CallInternal(a, n, x)
        => /\ last'.result = Null
           /\ last'.target = 0 /\ last'.this = 0
           /\ UNCHANGED <<api, ctl, instances, instancesCreated, stack>>]_vars

\* callInternal("nonexistentOp") has returned null
C5_Witness ==
    /\ last.op = "callInternal" /\ last.name = "nonexistentOp"
    /\ last.result = Null /\ last.target = 0

\* C6: after every step the uniqueId of the k-th handle constructed is k - 1,
\* whatever was removed in between, and no step changes a handle's id or
\* uniqueId.
C6_UniqueIds ==
    [][/\ \A a \in 1..Len(api') : api'[a].uniqueId = a - 1
       /\ instancesCreated' = Len(api')
       /\ \A a \in Apis : /\ api'[a].uniqueId = api[a].uniqueId
                          /\ api'[a].id = api[a].id]_vars

\* a handle constructed after another one was removed
C6_Witness ==
    /\ last.op = "new" /\ last.a >= 2
    /\ removed # {}
    /\ Len(instances) < Len(api)
    /\ api[last.a].uniqueId = last.a - 1

InRegistry(a) == \E i \in 1..Len(instances) : api[instances[i]].uniqueId = api[a].uniqueId

\* C7: once remove() has been called on a handle no entry of the list of
\* players has its uniqueId, whatever is called on the handle afterwards.
C7_RemovedNotRegistered == \A a \in removed : ~InRegistry(a)

\* setup() has completed on a handle that was removed before
C7_Witness ==
    /\ stack = <<>>
    /\ last.op = "setup" /\ last.a \in removed
    /\ ~InRegistry(last.a)

RECURSIVE Kept(_)
Kept(n) == IF n = 0 THEN <<>>
           ELSE IF n \in removed THEN Kept(n - 1) ELSE Append(Kept(n - 1), n)

\* C8: the list of players is exactly the handles constructed and not yet
\* removed, in construction order.
C8_RegistryIsLiveSet == instances = Kept(Len(api))

\* A and B constructed, A removed: the list is exactly B
C8_Witness ==
    /\ Len(api) = 2 /\ removed = {1}
    /\ api[1].uniqueId = 0 /\ api[2].uniqueId = 1
    /\ last.op = "remove" /\ last.a = 1
    /\ instances = <<2>>

Matches(reg, a) == {i \in 1..Len(reg) : api[reg[i]].uniqueId = api[a].uniqueId}

\* C9: removePlayer takes out the last entry whose uniqueId matches and
\* nothing else, keeping the order of the rest; without a match the list is
\* unchanged.
C9_RemovesLastMatchOnly ==
    [][\A a \in Apis :
        Unregister(a)
        => IF Matches(instances, a) = {} THEN instances' = instances
           ELSE LET j == CHOOSE i \in Matches(instances, a) :
                             \A k \in Matches(instances, a) : k <= i
                IN  /\ Len(instances') = Len(instances) - 1
                    /\ \A k \in 1..(j - 1) : instances'[k] = instances[k]
                    /\ \A k \in j..Len(instances') : instances'[k] = instances[k + 1]]_vars

\* one of two entries of the same handle was removed: the first one stays
C9_Witness ==
    /\ last.op = "removePlayer"
    /\ Len(instances) = MaxList - 1
    /\ instances[1] = last.a
    /\ \E i \in 1..Len(instances) : instances[i] # last.a

\* the dispatch of "remove" that a running remove() started
RemoveDispatch(i) ==
    /\ i > 1
    /\ stack[i].op = "dispatch" /\ stack[i].name = "remove"
    /\ stack[i - 1].op = "remove" /\ stack[i - 1].a = stack[i].a

RemoveStarts(a) ==
    \/ Remove(a)
    \/ DeliverRemove /\ Top.a = a
    \/ SetupBind /\ Top.a = a /\ Head(Top.todo).k = "remove"

EventNames == SubNames \cup CtlEvents

\* C11: when remove() returns, the handle has no subscription left, those a
\* "remove" subscriber added while "remove" was being delivered included:
\* a trigger of any name would invoke nobody, and no controller of the handle
\* has a listener left.
C11_RemoveDetachesAll ==
    [][(stack # <<>> /\ Top.op = "remove" /\ Top.pc = "reset" /\ last'.op = "remove")
       => /\ api'[Top.a].events = NoEvents
          /\ \A n \in EventNames : Subscribers(api'[Top.a].events, n) = <<>>
          /\ \A c \in 1..Len(ctl') : ctl'[c].api = Top.a => ctl'[c].listeners = <<>>]_vars

\* remove() has returned and a "remove" subscriber had subscribed during the dispatch
C11_Witness ==
    /\ last.op = "remove" /\ last.name \in SubNames
    /\ api[last.a].events = NoEvents

\* C12: Removed is terminal: once remove() has been called on a handle and
\* every call has returned, the handle has no live, wired controller, whatever
\* was called on it since (setup() in particular).
C12_RemovedIsTerminal ==
    \A a \in removed : stack = <<>> => ~Live(api[a].controller)

\* C13: setup(options) applies options.events before it returns.  Each key is
\* taken once, in order, after the replacement controller was allocated and
\* while setup() has not yet delegated to the controller: a key that names a
\* method of the handle has that method called with the key's value (onReady
\* subscribes it to "ready", setVolume forwards it to the handle's current
\* controller, a controller newer than the one setup() tore down, remove and
\* setup start that call), a key that names no method changes nothing; and
\* setup() delegates only when no key is left, so that a final setVolume key
\* was forwarded, with its value, to the controller that then receives setup.
C13_BindingsApplied ==
    [][(stack # <<>> /\ Top.op = "setup" /\ Top.pc = "bind" /\ stack' # stack) =>
       LET a == Top.a
           n == Len(stack)
           K == Top.opts.events
       IN  IF Top.todo # <<>>
           THEN LET key == Head(Top.todo).k
                    val == Head(Top.todo).v
                IN  /\ Top.made > Top.src /\ ctl[Top.made].api = a
                    /\ Len(stack') >= n /\ stack'[n] = [Top EXCEPT !.todo = Tail(@)]
                    /\ key = "onReady" =>
                          api'[a].events["ready"] =
                              Append(api[a].events["ready"], [cb |-> val, ctx |-> Null])
                    /\ key = "setVolume" =>
                          /\ last'.op = "callInternal" /\ last'.name = "setVolume"
                          /\ last'.arg = val /\ last'.this = last'.target
                          /\ last'.target = api[a].controller
                          /\ last'.target >= Top.made
                    /\ key = "remove" => last'.op = "remove.start" /\ last'.a = a
                    /\ key = "setup" =>
                          /\ last'.op = "setup.reset" /\ last'.a = a
                          /\ stack'[n + 1].opts = Nested(val)
                    /\ key \notin ApiMethods =>
                          /\ Len(stack') = n
                          /\ UNCHANGED <<instances, api, ctl, removed, last>>
           ELSE /\ last'.op = "setup" /\ last'.target = api[a].controller
                /\ (K # <<>> /\ K[Len(K)].k = "setVolume") =>
                      /\ last.op = "callInternal" /\ last.name = "setVolume"
                      /\ last.arg = K[Len(K)].v
                      /\ last.target = last'.target]_vars

\* setup({events: {setVolume: 50}}) is about to delegate: 50 was forwarded to
\* the controller this call allocated
C13_Witness ==
    /\ stack # <<>> /\ Top.op = "setup" /\ Top.pc = "bind" /\ Top.todo = <<>>
    /\ Top.opts.events = <<[k |-> "setVolume", v |-> "50"]>>
    /\ last.op = "callInternal" /\ last.arg = "50" /\ last.target = Top.made
    /\ ctl[Top.made].setups = 0

\* C14: when setup(options) delegates, the options carry the handle's own id
\* whatever id the caller gave, the controller that receives setup(options,
\* handle) is the one this call of setup() created, it has then received
\* setup exactly once, no other controller is touched, and setup() returns
\* the handle.
C14_DelegatesOnceToNew ==
    [][(stack # <<>> /\ Top.op = "setup" /\ Top.pc = "bind" /\ Top.todo = <<>>
        /\ stack' # stack) =>
       /\ last'.op = "setup" /\ last'.result = "this"
       /\ last'.arg = api[Top.a].id
       /\ last'.target = Top.made
       /\ ctl'[Top.made].setups = 1
       /\ \A c \in Ctls : c # Top.made => ctl'[c] = ctl[c]]_vars

\* C15: a controller that fails while it is being configured reports it by
\* emitting "setupError", which reaches the caller as an event of the handle;
\* so when setup() has returned, the controller it delegated to is the one
\* live controller of the handle and its "all" listener is attached (what it
\* emits is emitted again on the handle).
C15_SetupFaultReported ==
    (stack = <<>> /\ last.op = "setup") =>
        /\ last.result = "this"
        /\ Has(ctl[last.target].listeners, "all")
        /\ {c \in OfApi(last.a) : Live(c)} = {last.target}

\* the subscribers a dispatch has invoked, without what each was given
Invoked(fired) ==
    [i \in 1..Len(fired) |-> [k |-> fired[i].k, v |-> fired[i].v, ctx |-> fired[i].ctx]]
\* the step ends the running dispatch
Ends == stack # <<>> /\ Top.op = "dispatch" /\ Len(stack') < Len(stack)
\* the step is a call of trigger or triggerSafe that finds subscribers
Starts(f) == stack = <<>> /\ stack' # <<>> /\ stack'[1].op = "dispatch" /\ stack'[1].pc = f

\* C16: a dispatch started by triggerSafe, or by trigger while the debug flag
\* is off, is safe: a subscriber that throws does not end it, it returns to
\* its caller normally, and by then every subscriber of the event has been
\* invoked, those registered after a throwing one too, in registration order.
C16_SafeDispatchContains ==
    [][/\ (Starts("triggerSafe") \/ (Starts("trigger") /\ ~debug)) => stack'[1].safe
       /\ (stack # <<>> /\ Top.op = "dispatch" /\ Top.safe /\ Top.todo # <<>>
             /\ stack' # stack /\ ~Ends)
            => /\ Len(stack') = Len(stack)
               /\ stack'[Len(stack)].todo = Tail(Top.todo)
       /\ (Ends /\ Top.safe)
            => /\ last'.result = "this"
               /\ Invoked(last'.fired) = Subscribers(api[Top.a].events, Top.name)]_vars

\* a safe dispatch has returned; a subscriber that throws was invoked, and
\* after it one that was registered later under the same name
C16_Witness ==
    /\ stack = <<>> /\ last.op \in {"trigger", "triggerSafe"} /\ last.result = "this"
    /\ \E i, j \in 1..Len(last.fired) :
          /\ i < j
          /\ Throws(last.fired[i].k) /\ ~Throws(last.fired[j].k)
          /\ last.fired[i].v = last.fired[j].v

\* C17: trigger(name, payload) reads the debug flag when it is called.  Set,
\* the first subscriber that throws ends the dispatch and its exception
\* reaches the caller of trigger; unset, the dispatch runs to its end and
\* trigger returns normally.  What the flag becomes while a dispatch runs
\* does not change that dispatch: the new value counts from the next call.
C17_DebugSelectsVariant ==
    [][/\ Starts("trigger") => (stack'[1].safe <=> ~debug)
       /\ (stack # <<>> /\ Len(stack') = Len(stack)) => Top.safe = stack'[Len(stack)].safe
       /\ (stack # <<>> /\ Top.op = "dispatch" /\ Top.pc = "trigger" /\ stack' # stack)
            => IF ~Top.safe /\ Throws(Head(Top.todo).k)
               THEN Ends /\ last'.result = "throws"
                    /\ last'.fired[Len(last'.fired)].k = Head(Top.todo).k
               ELSE IF Tail(Top.todo) = <<>>
                    THEN Ends /\ last'.result = "this"
                    ELSE ~Ends /\ last' = last]_vars

\* with the flag set, trigger was left by the exception of a subscriber
\* while another subscriber was still to be invoked
C17_Witness ==
    /\ stack = <<>> /\ last.op = "trigger" /\ last.result = "throws"
    /\ Len(last.fired) < Len(Subscribers(api[last.a].events, last.name))

\* the payloads of BusPayloads that are not objects
NonObjects == {NoArgs, [prim |-> "5"]}

\* C18: trigger(name, payload) hands the subscribers a normalized payload:
\* for an object, a copy with the object's fields and type = name, whatever
\* type the object had, the caller's object staying as it was; for a payload
\* that is missing or not an object, the record {type: name}.  Every
\* subscriber of the dispatch is given that same payload.
C18_PayloadNormalized ==
    [][/\ Starts("trigger") =>
            \A a \in Apis, n \in TriggerNames, p \in BusPayloads :
               Trigger(a, n, p) =>
                  LET f == stack'[1] IN
                  /\ f.given = p
                  /\ f.payload.type = n
                  /\ IF p \in NonObjects
                     THEN f.payload = [type |-> n]
                     ELSE /\ DOMAIN f.payload = DOMAIN p \cup {"type"}
                          /\ \A k \in DOMAIN p \ {"type"} : f.payload[k] = p[k]
       /\ (Ends /\ Top.pc = "trigger") =>
            /\ last'.payload = Top.payload /\ last'.given = Top.given
            /\ \A i \in 1..Len(last'.fired) : last'.fired[i].got.payload = Top.payload
       /\ (stack # <<>> /\ Len(stack') = Len(stack)) =>
            /\ stack'[Len(stack)].payload = Top.payload
            /\ stack'[Len(stack)].given = Top.given]_vars

\* trigger("ready", {pos: 1, type: "stale"}) has returned: the subscribers
\* were given the type "ready", the caller's object still says "stale"
C18_Witness ==
    /\ stack = <<>> /\ last.op = "trigger" /\ last.fired # <<>>
    /\ last.given = [pos |-> "1", type |-> "stale"]
    /\ last.fired[1].got.payload = [pos |-> "1", type |-> "ready"]

\* off(name, cb, ctx) selects the entry e kept under the name n
Selected(n, e, name, cb, ctx) ==
    /\ name = Null \/ n = name
    /\ cb = Null \/ e.cb = cb
    /\ ctx = Null \/ e.ctx = ctx
\* the subscriptions a handle holds: the places of its lists
Held(a) == {<<n, i>> \in SubNames \X (1..used) : i <= Len(api[a].events[n])}

\* C19: off(name, callback, context) removes the subscriptions its arguments
\* select and leaves every other one in place and in order: all of them when
\* no argument is given (no trigger then invokes anybody), those under the
\* name when only a name is given, and of these (of all names when no name is
\* given) only those with the callback, and only those bound to the context,
\* when a callback or a context is given.
C19_OffRemovesSelected ==
    [][(stack = <<>> /\ api' # api /\ used' = used) =>
         \A a \in Apis, name \in SubNames \cup {Null}, cb \in BusCallbacks \cup {Null},
            ctx \in Contexts :
            Off(a, name, cb, ctx) =>
              /\ \A n \in SubNames :
                    api'[a].events[n] =
                       SelectSeq(api[a].events[n],
                                 LAMBDA e : ~Selected(n, e, name, cb, ctx))
              /\ (name = Null /\ cb = Null /\ ctx = Null) =>
                    \A n \in EventNames : Subscribers(api'[a].events, n) = <<>>]_vars

\* two subscriptions were made and one is left: an off() took one and kept
\* the other
C19_Witness ==
    /\ stack = <<>> /\ used = 2
    /\ \E a \in Apis : Cardinality(Held(a)) = 1

\* the subscriptions among `fired` that were registered under the name v
FiredUnder(fired, v) ==
    LET sel == SelectSeq(fired, LAMBDA e : e.v = v)
    IN  [i \in 1..Len(sel) |-> [cb |-> sel[i].k, ctx |-> sel[i].ctx]]
IsPrefix(s, t) == Len(s) <= Len(t) /\ s = SubSeq(t, 1, Len(s))

\* C20 as stated: every call of trigger or triggerSafe invokes all the
\* subscribers of the event's name and all the wildcard subscribers, each
\* list in registration order.
C20_Original ==
    [][Ends =>
        /\ FiredUnder(last'.fired, Top.name) = Listed(api[Top.a].events, Top.name)
        /\ FiredUnder(last'.fired, "all") = Listed(api[Top.a].events, "all")]_vars

\* C20: when a call of trigger or triggerSafe ends, the subscribers it has
\* invoked under the event's own name are the first of that name's list, in
\* registration order, and those it has invoked under "all" the first of the
\* wildcard list, in registration order; a call that returns normally has
\* invoked both lists to their end.  A subscriber under the name was given
\* (payload), a subscriber under "all" was given (name, payload).
C20_RegistrationOrder ==
    [][Ends =>
        LET ev == api[Top.a].events
            n == Top.name
            own == FiredUnder(last'.fired, n)
            wild == FiredUnder(last'.fired, "all")
        IN  /\ IsPrefix(own, Listed(ev, n))
            /\ IsPrefix(wild, Listed(ev, "all"))
            /\ Len(last'.fired) = Len(own) + Len(wild)
            /\ last'.result = "this" => own = Listed(ev, n) /\ wild = Listed(ev, "all")
            /\ \A i \in 1..Len(last'.fired) :
                  last'.fired[i].got = IF last'.fired[i].v = "all"
                                       THEN [name |-> n, payload |-> Top.payload]
                                       ELSE [payload |-> Top.payload]]_vars

\* an event nobody subscribed to by name has been delivered to two different
\* wildcard subscriptions, each given the event's name
C20_Witness ==
    /\ stack = <<>> /\ last.result = "this" /\ last.name = "time"
    /\ Len(last.fired) = 2
    /\ last.fired[1].v = "all" /\ last.fired[2].v = "all"
    /\ last.fired[1].k # last.fired[2].k
    /\ last.fired[1].got.name = "time" /\ last.fired[2].got.name = "time"

\* how often the hook h is subscribed to "ready" on the handle a
Hooked(a, h) == Len(SelectSeq(api[a].events["ready"], LAMBDA e : e.cb = h))
\* how often h is among the subscribers a dispatch has invoked
FiredTimes(fired, h) == Len(SelectSeq(fired, LAMBDA e : e.k = h))
\* the plugin instances the handle a has stored
Stored(a) == {api[a].plugins[n] : n \in DOMAIN api[a].plugins}
\* the step is a call of trigger(n) that finds nobody subscribed
Unheard(n) ==
    /\ stack = <<>> /\ stack' = <<>> /\ last' # last
    /\ last'.op = "trigger" /\ last'.name = n

\* C21 as stated: with neither setup() nor off() called on the handle, every
\* "ready" triggered on it invokes the addToPlayer of every instance that
\* addPlugin has stored exactly once.
C21_Original ==
    [][/\ (Ends /\ Top.name = "ready") =>
            \A i \in Stored(Top.a) : FiredTimes(last'.fired, i.addToPlayer) = 1
       /\ Unheard("ready") => Stored(last'.a) = {}]_vars

\* C21: addPlugin(name, instance) stores the instance and appends one
\* subscription of instance.addToPlayer to "ready" (and one of resizeHandler
\* to "resize" when the instance has a resize capability).  Delivering an
\* event removes no subscription, so the hook is not one-shot: every "ready"
\* dispatch that runs to its end invokes the hook once for each subscription
\* it has at that moment, that is once per addPlugin call made with the
\* instance since remove() last detached the handle's subscriptions, and
\* exactly once when there was one such call; a dispatch that a subscriber's
\* exception ends (debug flag set) invokes it at most that often.
C21_HookEveryReady ==
    [][/\ (stack = <<>> /\ last'.op = "addPlugin" /\ used' = used + 1) =>
            LET a == last'.a
                i == last'.value
                ev == api[a].events
            IN  AddPlugin(a, last'.name, i) =>
                /\ api'[a].plugins[last'.name] = i
                /\ api'[a].events["ready"] =
                      Append(ev["ready"], [cb |-> i.addToPlayer, ctx |-> Null])
                /\ api'[a].events["resize"] =
                      IF i.resize
                      THEN Append(ev["resize"], [cb |-> i.resizeHandler, ctx |-> Null])
                      ELSE ev["resize"]
       /\ (stack # <<>> /\ Top.op = "dispatch" /\ stack' # stack) =>
            /\ api' = api
            /\ \A h \in PluginHooks :
                  hooks'[h] = hooks[h] + (IF Head(Top.todo).k = h THEN 1 ELSE 0)
       /\ (Ends /\ Top.name = "ready") =>
            \A h \in PluginHooks :
               /\ FiredTimes(last'.fired, h) <= Hooked(Top.a, h)
               /\ last'.result = "this" => FiredTimes(last'.fired, h) = Hooked(Top.a, h)
       /\ Unheard("ready") => \A h \in PluginHooks : Hooked(last'.a, h) = 0]_vars

\* a second "ready" has been delivered: the hook, subscribed once by
\* addPlugin, was invoked once by this dispatch and once by the one before
C21_Witness ==
    /\ stack = <<>> /\ last.op = "trigger" /\ last.name = "ready"
    /\ last.result = "this"
    /\ \E i \in Stored(last.a) :
          /\ Hooked(last.a, i.addToPlayer) = 1
          /\ FiredTimes(last.fired, i.addToPlayer) = 1
          /\ hooks[i.addToPlayer] = 2

\* the step is a call of addPlugin
Adds ==
    /\ stack = <<>> /\ last'.op = "addPlugin" /\ used' = used + 1
    /\ AddPlugin(last'.a, last'.name, last'.value)

\* C22: the plugins of a handle change only by addPlugin(name, instance),
\* which stores the instance under the name and leaves the other entries as
\* they are; no step of setup(), remove(), off(), trigger or a dispatch
\* changes or removes an entry.  getPlugin(name) returns the instance last
\* stored under the name, undefined when there is none, raises nothing and
\* changes nothing.
C22_PluginsOnlyGrow ==
    [][/\ \A a \in Apis :
            LET P == api[a].plugins
                Q == api'[a].plugins
            IN  IF Adds /\ last'.a = a
                THEN /\ DOMAIN Q = DOMAIN P \cup {last'.name}
                     /\ Q[last'.name] = last'.value
                     /\ \A n \in DOMAIN P \ {last'.name} : Q[n] = P[n]
                ELSE Q = P
       /\ (last'.op = "getPlugin" /\ last' # last) =>
            /\ last'.result = "returns"
            /\ last'.value = IF last'.name \in DOMAIN api[last'.a].plugins
                              THEN api[last'.a].plugins[last'.name] ELSE NoArgs
            /\ UNCHANGED <<instancesCreated, instances, api, ctl, hooks, stack, used,
                           removed>>]_vars

\* after setup() and remove() the handle has no subscription left, and
\* getPlugin still returns the instance addPlugin stored
C22_Witness ==
    /\ stack = <<>> /\ last.op = "getPlugin" /\ last.value \in PluginInstances
    /\ last.a \in removed /\ Cardinality(OfApi(last.a)) >= 2
    /\ \A n \in PluginSubNames : api[last.a].events[n] = <<>>

\* the subscriptions the bindings of an options.events map register
Bindings(K) ==
    LET keys == SelectSeq(K, LAMBDA e : e.k = "onReady")
    IN  [n \in PluginSubNames |->
            IF n = "ready"
            THEN [i \in 1..Len(keys) |-> [cb |-> keys[i].v, ctx |-> Null]]
            ELSE <<>>]

\* C26: when setup(options) returns, the subscriptions of the handle are
\* exactly those the bindings of options.events registered: the hooks that
\* addPlugin subscribed and the integrator's subscriptions made before the
\* call are gone, so that a later "ready" invokes none of them.
C26_SetupRewires ==
    [][(stack # <<>> /\ Top.op = "setup" /\ Top.pc = "bind" /\ Top.todo = <<>>
        /\ stack' # stack)
       => api'[Top.a].events = Bindings(Top.opts.events)]_vars

\* the forwarded calls that found no such operation on the controller
Missing(calls) == {i \in 1..Len(calls) : calls[i].target = 0}

\* C23: a public operation that forwards through callInternal does not raise
\* when the controller lacks the operation: play(), pause(), getPlaylistItem()
\* and qoe() return normally whatever the Controller class defines.
C23_MissingOperationNeverRaises ==
    (last.op \in {"play", "pause", "getPlaylistItem", "qoe"} /\ Missing(last.calls) # {})
    => last.result \in {"this", "returns"}

\* C24: getPlaylistItem() without an index returns the controller's current
\* playlist item; with an index it returns the item at that index of the
\* controller's playlist, and null when there is no item at the index.
C24_PlaylistItemOrNull ==
    (last.op = "getPlaylistItem") =>
        LET g == last.calls[1]
            index == last.given
        IN  IF index = NoArgs
            THEN /\ g.name = "get" /\ g.arg = "playlistItem"
                 /\ last.value = Returned(g)
            ELSE LET items == IF g.target # 0 THEN g.value.items ELSE <<>>
                 IN  /\ g.name = "get" /\ g.arg = "playlist"
                     /\ last.value = IF index.prim \in 0..(Len(items) - 1)
                                      THEN items[index.prim + 1] ELSE NullValue

\* the calls of play and pause among the calls an operation forwarded
PlayCalls(calls) == SelectSeq(calls, LAMBDA r : r.name \in {"play", "pause"})
\* what the first argument asks of play() or pause()
Asked(op, state) ==
    IF state \in {True, False}
    THEN IF (op = "play") <=> (state = True) THEN "play" ELSE "pause"
    ELSE "toggle"

\* C25: play(true) and pause(false) forward one 'play', play(false) and
\* pause(true) one 'pause'; without a boolean both ask the controller for
\* its state and forward 'pause' when it is playing or buffering, 'play'
\* otherwise.  Every call forwards exactly one of the two, to the handle's
\* current controller, with the meta {reason: 'external'} when the caller
\* passed no meta, and returns the handle.
C25_PlayPause ==
    (last.op \in {"play", "pause"}) =>
        LET fw == PlayCalls(last.calls)
            asked == Asked(last.op, last.given)
        IN  /\ Len(fw) = 1 /\ last.result = "this"
            /\ asked \in {"play", "pause"} => fw[1].name = asked /\ Len(last.calls) = 1
            /\ asked = "toggle" =>
                  /\ Len(last.calls) = 2 /\ last.calls[1].name = "getState"
                  /\ fw[1] = last.calls[2]
                  /\ fw[1].name =
                        IF Returned(last.calls[1]) \in {[prim |-> "playing"],
                                                        [prim |-> "buffering"]}
                        THEN "pause" ELSE "play"
            /\ (last.arg = NoArgs /\ ~isObject(last.given)) =>
                  fw[1].arg = [reason |-> "external"]
            /\ fw[1].target = IF fw[1].name \in ops THEN api[last.a].controller ELSE 0

\* pause() without arguments found the controller buffering and forwarded
\* one 'pause' with the meta {reason: 'external'}
C25_Witness ==
    /\ last.op = "pause" /\ last.given = NoArgs /\ last.arg = NoArgs
    /\ Len(last.calls) = 2
    /\ last.calls[1].name = "getState" /\ last.calls[1].value = [prim |-> "buffering"]
    /\ last.calls[2].name = "pause" /\ last.calls[2].target = api[last.a].controller
    /\ last.calls[2].arg = [reason |-> "external"]

\* C27: setup() first clears the "ready" tick of the QoE timer and ticks
\* "setup" at the current time, in the step that tears the controller down;
\* no other step changes the "setup" tick, and only the "ready" listener of a
\* controller changes the "ready" tick.  When the handle's live controller
\* emits "ready", "ready" is ticked at the current time and the payload of
\* the dispatch on the handle, the one every subscriber is given, carries
\* setupTime = the "ready" tick minus the "setup" tick of the last setup().
C27_SetupTimeStamped ==
    [][\A a \in Apis :
        LET q == api[a].qoe
            r == api'[a].qoe
        IN  /\ IF last'.op = "setup.reset" /\ last'.a = a /\ used' = used + 1
               THEN r = tick(clear(q, "ready"), "setup")
                    /\ "ready" \notin DOMAIN r /\ r["setup"] = now
               ELSE /\ ("setup" \in DOMAIN q) = ("setup" \in DOMAIN r)
                    /\ "setup" \in DOMAIN q => r["setup"] = q["setup"]
                    /\ r # q => /\ stack = <<>> /\ r = tick(q, "ready")
                                 /\ Live(api[a].controller)
            /\ \A c \in OfApi(a), p \in CtlPayloads :
                  (stack = <<>> /\ stack' # stack /\ ControllerEmit(c, "ready", p)
                     /\ c = api[a].controller /\ Live(c))
                  => /\ r["ready"] = now
                     /\ stack'[1].name = "ready" /\ stack'[1].src = c
                     /\ "setup" \in DOMAIN q =>
                           stack'[1].payload.setupTime = now - q["setup"]
            /\ (Ends /\ Top.a = a /\ Top.name = "ready" /\ Top.src # 0) =>
                  /\ Len(last'.fired) = Len(Subscribers(api[a].events, "ready"))
                  /\ \A i \in 1..Len(last'.fired) :
                        last'.fired[i].got.payload.setupTime = Top.payload.setupTime
                  /\ Top.payload.setupTime = between(q, "setup", "ready")]_vars

\* after a second setup() the controller's "ready" was delivered to a
\* subscriber with the time that passed since that setup()
C27_Witness ==
    /\ stack = <<>> /\ last.op = "trigger" /\ last.name = "ready" /\ last.fired # <<>>
    /\ Cardinality(OfApi(last.a)) >= 3
    /\ last.fired[1].got.payload.setupTime = 1
    /\ api[last.a].qoe["setup"] = 2 /\ api[last.a].qoe["ready"] = 3

\* C28: triggerSafe(name, payload) normalizes the payload as trigger does:
\* what the subscribers are handed has type = name, and the fields of the
\* caller's object when the payload is one, on a copy.
C28_TriggerSafeNormalizes ==
    [][Starts("triggerSafe") =>
         LET f == stack'[1]
         IN  /\ "type" \in DOMAIN f.payload
             /\ f.payload = normalize(f.name, f.given)]_vars

\* C29: the destroy hook of a controller is invoked at most once, and no
\* call is forwarded to a controller whose destroy hook has been invoked,
\* neither an operation through callInternal nor the setup(options, handle)
\* that ends setup().
C29_DestroyedOnceThenUnused ==
    /\ \A c \in Ctls : ctl[c].destroyed <= 1
    /\ (last.op \in {"callInternal", "setup"} /\ last.target # 0)
         => ctl[last.target].destroyed = 0

\* C30: the controller that setup() delegates to, whatever options.events
\* names, has not been torn down: its listeners are attached and its destroy
\* hook has not run; and when setup() has returned it is the handle's
\* controller and live.
C30_DelegatesToLiveController ==
    [][(stack # <<>> /\ Top.op = "setup" /\ Top.pc = "bind" /\ Top.todo = <<>>
        /\ stack' # stack)
       => /\ last'.op = "setup"
          /\ Live(last'.target)
          /\ ctl'[last'.target].listeners # <<>>
          /\ ctl'[last'.target].destroyed = 0
          /\ api'[Top.a].controller = last'.target]_vars

\* C31: whenever the QoE timer of a handle holds both a "setup" and a
\* "ready" tick, the "ready" tick is not earlier than the "setup" tick: the
\* "ready" that a controller stamped before the last setup() is not kept.
C31_ReadyNotBeforeSetup ==
    \A a \in Apis :
       {"setup", "ready"} \subseteq DOMAIN api[a].qoe
          => api[a].qoe["ready"] >= api[a].qoe["setup"]

\* a third controller, made by the second setup(), has stamped "ready" later
\* than that setup()
C31_Witness ==
    \E a \in Apis :
       /\ stack = <<>>
       /\ api[a].controller >= 3 /\ Live(api[a].controller)
       /\ {"setup", "ready"} \subseteq DOMAIN api[a].qoe
       /\ api[a].qoe["setup"] = 2 /\ api[a].qoe["ready"] = 3
====
